---- MODULE Spec2Model ----
(***************************************************************************)
(* Flight-noise pipeline and traffic cache of dxb-fnz-heatmap-backend:      *)
(* feed fetch, noise estimate, WebSocket broadcast, persistence into        *)
(* noise_sources, the retention cleanup, and the traffic routes with their  *)
(* cache.  The repository holds two variants of the server that run the     *)
(* pipeline: src/unnamed/part_000 (lines 1-902) and src/index.js; the       *)
(* traffic routes are in part_000 only.  The variable `variant` says which  *)
(* one is running; it is chosen in Init and never changes.                  *)
(*                                                                         *)
(* Every `await` of the source is a point where the event loop may run     *)
(* another callback, so each action below is the synchronous run of one    *)
(* callback from one await to the next.                                    *)
(***************************************************************************)
EXTENDS Integers, Sequences, FiniteSets, TLC

VARIABLES
    variant,              \* which server file is running
    running,              \* FALSE once the node process has died
    now,                  \* wall clock, in days
    cycle,                \* executions of updateAndBroadcastNoiseData
    started,              \* number of flight ticks fired so far
    lastKnownFlightData,  \* part_000:778
    wssClients,           \* wss.clients, in insertion order
    readyState,           \* readyState of every socket
    inbox,                \* messages each socket has been sent
    sendRaises,           \* sockets whose send() throws
    noise_sources,        \* committed rows of table noise_sources
    cleanups,             \* executions of cleanupOldData awaiting pool.query
    cleanupsStarted,      \* number of retention ticks fired so far
    demos,                \* number of demo broadcasts fired so far
    published,            \* history: the publishes, in order
    lastKnownPub,         \* history: number of the publish lastKnownFlightData holds
    joinedAt,             \* history: number of publishes made when a socket connected
    lastCleanup,          \* history: outcome of the latest cleanup DELETE
    callee,               \* a function called on its own: its name
    argument,             \* ... the argument it was called with
    result,               \* ... what it returned
    returned,             \* ... whether it has returned
    GOOGLE_API_KEY,       \* process.env.GOOGLE_MAPS_API_KEY is set
    dateNow,              \* Date.now(), in milliseconds
    trafficDataCache,     \* part_000:31
    trafficCacheTimestamp,\* part_000:32
    request               \* executions of the two traffic route handlers

serverVars == <<variant, running, now, cycle, started, lastKnownFlightData,
                wssClients, readyState, inbox, sendRaises, noise_sources,
                cleanups, cleanupsStarted, demos, published, lastKnownPub,
                joinedAt, lastCleanup>>

callVars == <<callee, argument, result, returned>>

trafficVars == <<GOOGLE_API_KEY, dateNow, trafficDataCache,
                 trafficCacheTimestamp, request>>

vars == <<serverVars, callVars, trafficVars>>

(***************************************************************************)
(* Bounds of the model.                                                    *)
(***************************************************************************)
MaxTicks == 2
MaxClients == 2
MaxCleanups == 2
MaxDemos == 1
MaxAdvance == 1
MaxStates == 2
MaxRequests == 2
MaxRoutes == 2
MaxClockSteps == 3

(***************************************************************************)
(* Program constants.                                                      *)
(***************************************************************************)
RetentionDays == 7

\* const TRAFFIC_CACHE_DURATION = 5 * 60 * 1000, in milliseconds
TRAFFIC_CACHE_DURATION == 5 * 60 * 1000

Variants == {"part_000", "index.js"}
CycleIds == 1..MaxTicks
ClientIds == 1..MaxClients
RequestIds == 1..MaxRequests

\* JavaScript null, undefined and NaN where a number is expected.  undefined
\* is what destructuring yields for a position the record does not have.
Null == -999999
Undefined == -999998
NaN == -999997

\* Number(v): null converts to 0, undefined to NaN.
ToNumber(v) == IF v = Null THEN 0 ELSE IF v = Undefined THEN NaN ELSE v

\* JavaScript truthiness of such a value: null, undefined, NaN and 0 are falsy.
Truthy(v) == v \notin {Null, Undefined, NaN, 0}

\* a > b and a < b for a number b: false when a converts to NaN.
Greater(a, b) == ToNumber(a) # NaN /\ ToNumber(a) > b
Less(a, b) == ToNumber(a) # NaN /\ ToNumber(a) < b

\* a || b
OrElse(a, b) == IF Truthy(a) THEN a ELSE b

(***************************************************************************)
(* calculateNoiseLevel.  The level is a fraction of 9000 (the divisor of    *)
(* the source), so Level9000 = 9000 * level: 0.1 is 900 and 1.0 is 9000.    *)
(* The tests are decided as JavaScript decides them: `=== null` is true of  *)
(* null only, and every comparison with undefined or NaN is false, so such  *)
(* an altitude reaches the last line, whose arithmetic yields NaN.          *)
(***************************************************************************)
\* Mutant of calculateNoiseLevel: the interpolation rises with the altitude.
calculateNoiseLevelRising(altitude) ==
    IF altitude = Null \/ Greater(altitude, 10000) THEN 900
    ELSE IF Less(altitude, 1000) THEN 9000
    ELSE IF ToNumber(altitude) = NaN THEN NaN
    ELSE ToNumber(altitude) - 1000

calculateNoiseLevel(altitude) ==
    IF altitude = Null \/ Greater(altitude, 10000) THEN 900
    ELSE IF Less(altitude, 1000) THEN 9000
    ELSE IF ToNumber(altitude) = NaN THEN NaN
    ELSE 9000 - (ToNumber(altitude) - 1000)

\* Math.round of an integer, null, undefined or NaN.
MathRound(v) == ToNumber(v)

(***************************************************************************)
(* One record of the upstream payload, decoded positionally; only the       *)
(* fields the pipeline reads are kept.  Positions are whole degrees and     *)
(* velocity is chosen so that velocity * 3.6 is whole.                      *)
(***************************************************************************)
State(id, t, lng, lat, baro, ground, vel, geo) ==
    [iterable |-> TRUE,
     icao24 |-> id, time_position |-> t, longitude |-> lng, latitude |-> lat,
     baro_altitude |-> baro, on_ground |-> ground, velocity |-> vel,
     geo_altitude |-> geo]

\* An element of `states` that is JSON null: destructuring it throws.
NullRecord ==
    [State("", Undefined, Undefined, Undefined, Undefined, FALSE, Undefined,
           Undefined) EXCEPT !.iterable = FALSE]

\* 60 + noiseLevel * 30, times 300: 18000 + Level9000.
NoiseLevel300(altitude) ==
    IF calculateNoiseLevel(altitude) = NaN THEN NaN
    ELSE 18000 + calculateNoiseLevel(altitude)

\* const altitude = geo_altitude || baro_altitude
Altitude(state) == OrElse(state.geo_altitude, state.baro_altitude)

\* The object pushed onto noiseDataPoints for one airborne, positioned state.
NoisePoint(state) ==
    LET altitude == Altitude(state)
    IN [id |-> state.icao24,
        lat |-> state.latitude,
        lng |-> state.longitude,
        noiseLevel |-> NoiseLevel300(altitude),
        source |-> "flight",
        emirate |-> "UAE",
        timestamp |-> state.time_position,
        altitude_meters |-> MathRound(altitude),
        speed_kph |-> IF ToNumber(state.velocity) = NaN THEN NaN
                      ELSE (ToNumber(state.velocity) * 36) \div 10]

\* Mutant of Airborne: the ground flag is not tested.
AirborneOrNot(state) == Truthy(state.latitude) /\ Truthy(state.longitude)

\* if (!on_ground && latitude && longitude)
Airborne(state) ==
    ~state.on_ground /\ Truthy(state.latitude) /\ Truthy(state.longitude)

\* data.states.forEach: the records are decoded in order and the points
\* pushed onto noiseDataPoints; a record that cannot be destructured throws
\* out of the forEach, with the points pushed so far left in the array.
RECURSIVE DecodeFrom(_, _)
DecodeFrom(states, noiseDataPoints) ==
    IF states = <<>> THEN [threw |-> FALSE, noiseDataPoints |-> noiseDataPoints]
    ELSE IF ~Head(states).iterable
    THEN [threw |-> TRUE, noiseDataPoints |-> noiseDataPoints]
    ELSE DecodeFrom(Tail(states),
                    IF Airborne(Head(states))
                    THEN Append(noiseDataPoints, NoisePoint(Head(states)))
                    ELSE noiseDataPoints)

DecodeStates(states) == DecodeFrom(states, <<>>)

\* What a call hands back: it raised, or it returned a value.
Returns(v) == [raised |-> FALSE, value |-> v]

\* Mutant of Caught: the points decoded before the failure are returned.
CaughtPartial(noiseDataPoints) == Returns(noiseDataPoints)

\* catch (error) { console.error(...); return []; }
Caught(noiseDataPoints) == Returns(<<>>)

(***************************************************************************)
(* fetchRealFlightData.  A response is a transport error, a non-2xx         *)
(* status, a body that is not JSON, a JSON object whose `states` is truthy  *)
(* but no array (forEach is not a function), or a JSON object whose         *)
(* `states` is absent/null (hasStates FALSE) or an array of records.  The   *)
(* first four throw inside the try block before anything is pushed.         *)
(***************************************************************************)
fetchRealFlightData(response) ==
    IF response.kind # "ok" THEN Caught(<<>>)
    ELSE IF ~response.hasStates THEN Returns(<<>>)
    ELSE LET decoded == DecodeStates(response.states)
         IN IF decoded.threw THEN Caught(decoded.noiseDataPoints)
            ELSE Returns(decoded.noiseDataPoints)

\* The states the feed may report.  time_position is feed-supplied; the
\* feed reports the day the process started.
Low == State("a1", RetentionDays, 55, 25, 600, FALSE, 250, 500)
Mid == State("b2", RetentionDays, 54, 24, 5500, FALSE, 200, Null)
Grounded == State("c3", RetentionDays, 55, 25, 0, TRUE, 0, 0)
Unplaced == State("d4", RetentionDays, Null, Null, 3000, FALSE, 100, 3000)

Snapshots ==
    { <<>>, <<Grounded>>, <<Unplaced, Grounded>>, <<Grounded, Low>>,
      <<Low, Unplaced, Mid>>, <<Low, NullRecord>> }

Responses ==
    { [kind |-> k, hasStates |-> FALSE, states |-> <<>>] :
          k \in {"error", "status", "badjson", "nonarray", "ok"} }
    \cup { [kind |-> "ok", hasStates |-> TRUE, states |-> s] : s \in Snapshots }

(***************************************************************************)
(* The payload sent to subscribers.                                        *)
(***************************************************************************)
FrontendPoint(p) ==
    [id |-> p.id, lat |-> p.lat, lng |-> p.lng, noiseLevel |-> p.noiseLevel,
     source |-> p.source, emirate |-> p.emirate, timestamp |-> p.timestamp]

frontendPayload(allNoiseData) ==
    [i \in 1..Len(allNoiseData) |-> FrontendPoint(allNoiseData[i])]

\* JSON.stringify of a message object: the type tag and the data array.
NoiseDataUpdate(data) == [type |-> "NOISE_DATA_UPDATE", data |-> data]
Welcome == [type |-> "WELCOME", data |-> <<>>]

(***************************************************************************)
(* Rows of noise_sources.  `cycle` is a history tag: the execution of       *)
(* updateAndBroadcastNoiseData that inserted the row (0: a row that was in  *)
(* the table when the process started).                                    *)
(***************************************************************************)
Row(id, created, alt, speed, c) ==
    [source_type |-> "flight", source_id |-> id, created_at |-> created,
     altitude_meters |-> alt, speed_kph |-> speed, cycle |-> c]

\* part_000:822-831: ${p.altitude_meters || 'NULL'}, ${p.speed_kph || 'NULL'}
RowPart000(p, c) ==
    Row(p.id, p.timestamp,
        IF Truthy(p.altitude_meters) THEN p.altitude_meters ELSE Null,
        IF Truthy(p.speed_kph) THEN p.speed_kph ELSE Null, c)

\* index.js:509-513: the values are bound as parameters
RowIndex(p, c) == Row(p.id, p.timestamp, p.altitude_meters, p.speed_kph, c)

PriorRows == { Row("old0", 0, 800, 700, 0), Row("old1", 1, 900, 650, 0) }

FlightRows(table) == { r \in table : r.source_type = "flight" }

\* Mutant of Expired: <= in place of <.
ExpiredInclusive(r, t) == r.created_at <= t - RetentionDays

\* DELETE FROM noise_sources WHERE created_at < NOW() - INTERVAL '7 days'
Expired(r, t) == r.created_at < t - RetentionDays

CleanupDelete(table, t) == { r \in table : ~Expired(r, t) }

(***************************************************************************)
(* wss.broadcast: wss.clients.forEach in insertion order; a throwing send   *)
(* ends the forEach.  An inbox entry is the message with two history tags:  *)
(* pub, the number of the publish the data came from (0: none), and via,    *)
(* the code path that sent it.                                             *)
(***************************************************************************)
Entry(msg, pub, via) ==
    [type |-> msg.type, data |-> msg.data, pub |-> pub, via |-> via]

\* if (client.readyState === client.OPEN)
IsOpen(client) == readyState[client] = "OPEN"

RECURSIVE BroadcastFrom(_, _, _)
BroadcastFrom(i, box, entry) ==
    IF i > Len(wssClients) THEN [inbox |-> box, raised |-> FALSE]
    ELSE LET client == wssClients[i]
         IN IF IsOpen(client)
            THEN IF sendRaises[client]
                 THEN [inbox |-> box, raised |-> TRUE]
                 ELSE BroadcastFrom(i + 1,
                          [box EXCEPT ![client] = Append(@, entry)], entry)
            ELSE BroadcastFrom(i + 1, box, entry)

\* Mutant of broadcast: nothing is sent.
broadcastNothing(entry) == [inbox |-> inbox, raised |-> FALSE]

broadcast(entry) == BroadcastFrom(1, inbox, entry)

(***************************************************************************)
(* One execution of updateAndBroadcastNoiseData.                           *)
(*   pc      the await it is suspended at ("idle": not started)           *)
(*   batch   allNoiseData                                                  *)
(*   conn    it holds a client checked out of the pool                     *)
(*   txn     that client has a transaction open                            *)
(*   delset  rows deleted inside the open transaction                      *)
(*   buf     rows inserted inside the open transaction                     *)
(*   i       index of the row being inserted (index.js)                    *)
(*   pub     history: number of its publish (0: it published nothing)      *)
(*   failed  history: a persistence step of it failed                      *)
(*   erased, wrote  history: its own steps removed / added committed rows  *)
(***************************************************************************)
IdleCycle ==
    [pc |-> "idle", batch |-> <<>>, conn |-> FALSE, txn |-> FALSE,
     delset |-> {}, buf |-> {}, i |-> 0, pub |-> 0, failed |-> FALSE,
     erased |-> FALSE, wrote |-> FALSE]

Ended == {"done", "escaped_send", "escaped_db"}

InProgress(c) == cycle[c].pc \notin ({"idle"} \cup Ended)

\* A rejected promise nobody handles, or an exception thrown out of a timer
\* callback: depending on the runtime's settings the process dies or goes on.
Unhandled == running' \in BOOLEAN

\* Mutant of SkipsCycle: the early return is missing.
SkipsCycleNever(allNoiseData) == FALSE

\* if (allNoiseData.length === 0) return;
SkipsCycle(allNoiseData) == Len(allNoiseData) = 0

InitServer ==
    /\ variant \in Variants
    /\ running = TRUE
    /\ now = RetentionDays
    /\ cycle = [c \in CycleIds |->
                   IF c = 1 THEN [IdleCycle EXCEPT !.pc = "fetch"] ELSE IdleCycle]
    /\ started = 1
    /\ lastKnownFlightData = <<>>
    /\ wssClients = <<>>
    /\ readyState = [c \in ClientIds |-> "NEW"]
    /\ inbox = [c \in ClientIds |-> <<>>]
    /\ sendRaises = [c \in ClientIds |-> FALSE]
    /\ noise_sources = PriorRows
    /\ cleanups = IF variant = "part_000" THEN 1 ELSE 0
    /\ cleanupsStarted = IF variant = "part_000" THEN 1 ELSE 0
    /\ demos = 0
    /\ published = <<>>
    /\ lastKnownPub = 0
    /\ joinedAt = [c \in ClientIds |-> 0]
    /\ lastCleanup = [rowCount |-> 0, settled |-> FALSE, repeat |-> FALSE]

(***************************************************************************)
(* Traffic, src/unnamed/part_000:31-246.  Numbers are scaled integers:      *)
(* coordinates and the intensity before weighting in thousandths, weights   *)
(* and the traffic ratio in hundredths, the delay in tenths of a minute,    *)
(* so a point's intensity is in hundred-thousandths.                       *)
(***************************************************************************)
\* The fifteen routes, each with the start of the route as its position.
UAE_MAJOR_ROUTES ==
    << [name |-> "Sheikh Zayed Road - Dubai", weight |-> 100,
        emirate |-> "Dubai", lat |-> 25076, lng |-> 55132],
       [name |-> "Emirates Road - Dubai", weight |-> 90,
        emirate |-> "Dubai", lat |-> 25050, lng |-> 55200],
       [name |-> "Al Khail Road", weight |-> 85,
        emirate |-> "Dubai", lat |-> 25060, lng |-> 55170],
       [name |-> "Jumeirah Beach Road", weight |-> 75,
        emirate |-> "Dubai", lat |-> 25080, lng |-> 55140],
       [name |-> "Dubai-Al Ain Road", weight |-> 80,
        emirate |-> "Dubai", lat |-> 25252, lng |-> 55365],
       [name |-> "Dubai-Abu Dhabi Highway", weight |-> 95,
        emirate |-> "Multiple", lat |-> 25076, lng |-> 55132],
       [name |-> "Abu Dhabi Corniche", weight |-> 85,
        emirate |-> "Abu Dhabi", lat |-> 24470, lng |-> 54320],
       [name |-> "Abu Dhabi Airport Road", weight |-> 80,
        emirate |-> "Abu Dhabi", lat |-> 24466, lng |-> 54366],
       [name |-> "Abu Dhabi-Al Ain Road", weight |-> 75,
        emirate |-> "Abu Dhabi", lat |-> 24466, lng |-> 54366],
       [name |-> "Dubai-Sharjah Border", weight |-> 95,
        emirate |-> "Sharjah", lat |-> 25270, lng |-> 55330],
       [name |-> "Emirates Road - Sharjah", weight |-> 85,
        emirate |-> "Sharjah", lat |-> 25320, lng |-> 55440],
       [name |-> "Sharjah-Ajman Road", weight |-> 80,
        emirate |-> "Sharjah", lat |-> 25340, lng |-> 55390],
       [name |-> "Ajman-UAQ Road", weight |-> 70,
        emirate |-> "Ajman", lat |-> 25405, lng |-> 55445],
       [name |-> "UAQ-RAK Road", weight |-> 70,
        emirate |-> "Ras Al Khaimah", lat |-> 25564, lng |-> 55553],
       [name |-> "Dubai-Fujairah Road", weight |-> 75,
        emirate |-> "Fujairah", lat |-> 25270, lng |-> 55330] >>

\* The routes the loop of fetchGoogleTrafficData goes through: the first
\* MaxRoutes of the fifteen.
Routes == SubSeq(UAE_MAJOR_ROUTES, 1, MaxRoutes)

Min(a, b) == IF a < b THEN a ELSE b
Max(a, b) == IF a > b THEN a ELSE b

\* What one route's request to the Directions API comes to: the fetch or
\* the body rejects (or the body lacks a leg), the status is not OK, the
\* list of routes is empty, or a leg with its duration and, if reported,
\* its duration in traffic.  The polyline decodes to the route's start.
RouteReplies ==
    { [kind |-> k, duration |-> 0, duration_in_traffic |-> Null] :
          k \in {"error", "notok", "noroute"} }
    \cup { [kind |-> "ok", duration |-> 600, duration_in_traffic |-> t] :
               t \in {Null, 900} }

\* leg.duration_in_traffic?.value || normalDuration
trafficDuration(reply) == OrElse(reply.duration_in_traffic, reply.duration)

\* trafficDuration / normalDuration, in thousandths
trafficRatio(reply) == (1000 * trafficDuration(reply)) \div reply.duration

\* Math.max(0.3, Math.min((trafficRatio - 1.0) * 2.0, 1.0))
trafficIntensity(reply) ==
    Max(300, Min((trafficRatio(reply) - 1000) * 2, 1000))

\* The object pushed onto allTrafficPoints for a route that answered.
TrafficPoint(route, reply) ==
    [lat |-> route.lat,
     lng |-> route.lng,
     intensity |-> trafficIntensity(reply) * route.weight,
     route |-> route.name,
     emirate |-> route.emirate,
     trafficRatio |-> trafficRatio(reply) \div 10,
     delay |-> ((trafficDuration(reply) - reply.duration) * 10) \div 60]

\* Mutant of KeyMissing: the key is not looked at.
KeyMissingNever(key) == FALSE

\* if (!GOOGLE_API_KEY) throw new Error(...)
KeyMissing(key) == ~key

\* Mutant of CacheValid: an age equal to the duration still counts as valid.
CacheValidInclusive(cache, timestamp, t) ==
    cache # <<>> /\ Truthy(timestamp) /\ t - timestamp <= TRAFFIC_CACHE_DURATION

\* trafficDataCache && trafficCacheTimestamp &&
\*     (now - trafficCacheTimestamp < TRAFFIC_CACHE_DURATION)
\* The cache is <<>> for null and <<batch>> for an array, which is truthy
\* even if empty.
CacheValid(cache, timestamp, t) ==
    cache # <<>> /\ Truthy(timestamp) /\ t - timestamp < TRAFFIC_CACHE_DURATION

\* The body of a response of the two routes; a field a response does not
\* have is 0 or <<>> here.  status 0: nothing sent yet.
Response(status, cached, cacheAge, data, pointsCount) ==
    [status |-> status, success |-> status = 200, cached |-> cached,
     cacheAge |-> cacheAge, data |-> data, pointsCount |-> pointsCount]

NoResponse == Response(0, FALSE, 0, <<>>, 0)

\* res.status(500).json({ success: false, ... })
Failure == Response(500, FALSE, 0, <<>>, 0)

\* An execution of a traffic route handler:
\*   route   "roads" (GET /api/traffic/roads), "refresh" (POST .../refresh)
\*   pc      "idle", "route" (awaiting the reply for route i), "done"
\*   now     the Date.now() it took on arrival
\*   called, contacted, succeeded   history: fetchGoogleTrafficData was
\*           called, requests sent upstream, routes that yielded a point
IdleRequest ==
    [route |-> "none", pc |-> "idle", now |-> Null, i |-> 0,
     allTrafficPoints |-> <<>>, called |-> FALSE, contacted |-> 0,
     succeeded |-> 0, response |-> NoResponse]

\* No function is being called on its own.
NoCall ==
    /\ callee = "none"
    /\ argument = 0
    /\ result = 0
    /\ returned = FALSE

\* part_000:31-33 with no traffic request received; the traffic routes and
\* their cache exist in part_000 only.  The clock starts one cache
\* duration after the epoch, so that a timestamp taken from it is truthy.
InitCache ==
    /\ dateNow = TRAFFIC_CACHE_DURATION
    /\ trafficDataCache = <<>>
    /\ trafficCacheTimestamp = Null
    /\ request = [r \in RequestIds |-> IdleRequest]

NoTraffic == GOOGLE_API_KEY = FALSE /\ InitCache

Init == InitServer /\ NoCall /\ NoTraffic

(***************************************************************************)
(* Timers.                                                                 *)
(***************************************************************************)
\* setInterval(updateAndBroadcastNoiseData, ...): the callback runs up to
\* `await fetchRealFlightData()`, whatever earlier executions are doing.
TickFlight ==
    /\ running
    /\ started < MaxTicks
    /\ started' = started + 1
    /\ cycle' = [cycle EXCEPT ![started + 1].pc = "fetch"]
    /\ UNCHANGED <<variant, running, now, lastKnownFlightData, wssClients,
                   readyState, inbox, sendRaises, noise_sources, cleanups,
                   cleanupsStarted, demos, published, lastKnownPub, joinedAt, lastCleanup>>
    /\ UNCHANGED <<callVars, trafficVars>>

\* setInterval(cleanupOldData, SIX_HOURS_MS): runs up to `await pool.query`.
TickCleanup ==
    /\ running
    /\ variant = "part_000"
    /\ cleanupsStarted < MaxCleanups
    /\ cleanupsStarted' = cleanupsStarted + 1
    /\ cleanups' = cleanups + 1
    /\ UNCHANGED <<variant, running, now, cycle, started, lastKnownFlightData,
                   wssClients, readyState, inbox, sendRaises, noise_sources,
                   demos, published, lastKnownPub, joinedAt, lastCleanup>>
    /\ UNCHANGED <<callVars, trafficVars>>

\* Time passes.
Advance ==
    /\ running
    /\ now < RetentionDays + MaxAdvance
    /\ now' = now + 1
    /\ lastCleanup' = [lastCleanup EXCEPT !.settled = FALSE]
    /\ UNCHANGED <<variant, running, cycle, started, lastKnownFlightData,
                   wssClients, readyState, inbox, sendRaises, noise_sources,
                   cleanups, cleanupsStarted, demos, published, lastKnownPub,
                   joinedAt>>
    /\ UNCHANGED <<callVars, trafficVars>>

(***************************************************************************)
(* updateAndBroadcastNoiseData, src/unnamed/part_000:788-850.              *)
(***************************************************************************)
\* lastKnownFlightData = frontendPayload (part_000:808)
StoreLastKnown(data, n) ==
    /\ lastKnownFlightData' = data
    /\ lastKnownPub' = n

\* The record of one publish: its data, and who was OPEN and whose send threw.
Publish(data) ==
    [data |-> data,
     open |-> { w \in ClientIds : IsOpen(w) },
     broken |-> { w \in ClientIds : sendRaises[w] }]

\* part_000:789-817: from the resolved fetch to `await pool.connect()`.
\* fetchRealFlightData catches whatever its body throws, so the await
\* yields the value it returns.
FetchReturnPart000(c, response) ==
    /\ running
    /\ variant = "part_000"
    /\ cycle[c].pc = "fetch"
    /\ LET allNoiseData == fetchRealFlightData(response).value
           data == frontendPayload(allNoiseData)
           n == Len(published) + 1
           sent == broadcast(Entry(NoiseDataUpdate(data), n, "broadcast"))
       IN IF SkipsCycle(allNoiseData)
          THEN /\ cycle' = [cycle EXCEPT ![c].pc = "done"]
               /\ UNCHANGED <<running, lastKnownFlightData, lastKnownPub,
                              inbox, published>>
          ELSE /\ StoreLastKnown(data, n)
               /\ published' = Append(published, Publish(data))
               /\ inbox' = sent.inbox
               /\ IF sent.raised
                  THEN /\ cycle' = [cycle EXCEPT ![c].pc = "escaped_send",
                                                 ![c].batch = allNoiseData,
                                                 ![c].pub = n]
                       /\ Unhandled
                  ELSE /\ cycle' = [cycle EXCEPT ![c].pc = "connect",
                                                 ![c].batch = allNoiseData,
                                                 ![c].pub = n]
                       /\ UNCHANGED running
    /\ UNCHANGED <<variant, now, started, wssClients, readyState, sendRaises,
                   noise_sources, cleanups, cleanupsStarted, demos, joinedAt,
                   lastCleanup>>
    /\ UNCHANGED <<callVars, trafficVars>>

\* part_000:817-820: pool.connect() is awaited outside the try block.
ConnectReturnPart000(c, ok) ==
    /\ running
    /\ variant = "part_000"
    /\ cycle[c].pc = "connect"
    /\ IF ok
       THEN /\ cycle' = [cycle EXCEPT ![c].pc = "begin", ![c].conn = TRUE]
            /\ UNCHANGED running
       ELSE /\ cycle' = [cycle EXCEPT ![c].pc = "escaped_db", ![c].failed = TRUE]
            /\ Unhandled
    /\ UNCHANGED <<variant, now, started, lastKnownFlightData, wssClients,
                   readyState, inbox, sendRaises, noise_sources, cleanups,
                   cleanupsStarted, demos, published, lastKnownPub, joinedAt,
                   lastCleanup>>
    /\ UNCHANGED <<callVars, trafficVars>>

\* part_000:820-839: BEGIN resolved; the multi-row INSERT is sent.
BeginReturnPart000(c, ok) ==
    /\ running
    /\ variant = "part_000"
    /\ cycle[c].pc = "begin"
    /\ cycle' = IF ok
                THEN [cycle EXCEPT ![c].pc = "insert", ![c].txn = TRUE]
                ELSE [cycle EXCEPT ![c].pc = "rollback", ![c].failed = TRUE]
    /\ UNCHANGED <<variant, running, now, started, lastKnownFlightData,
                   wssClients, readyState, inbox, sendRaises, noise_sources,
                   cleanups, cleanupsStarted, demos, published, lastKnownPub,
                   joinedAt, lastCleanup>>
    /\ UNCHANGED <<callVars, trafficVars>>

\* The rows of the one INSERT statement of part_000:833-837.
ValuesPart000(c) ==
    { RowPart000(cycle[c].batch[k], c) : k \in 1..Len(cycle[c].batch) }

\* part_000:839-840: the INSERT resolved (all rows or none); COMMIT is sent.
InsertReturnPart000(c, ok) ==
    /\ running
    /\ variant = "part_000"
    /\ cycle[c].pc = "insert"
    /\ cycle' = IF ok
                THEN [cycle EXCEPT ![c].pc = "commit", ![c].buf = ValuesPart000(c)]
                ELSE [cycle EXCEPT ![c].pc = "rollback", ![c].failed = TRUE]
    /\ UNCHANGED <<variant, running, now, started, lastKnownFlightData,
                   wssClients, readyState, inbox, sendRaises, noise_sources,
                   cleanups, cleanupsStarted, demos, published, lastKnownPub,
                   joinedAt, lastCleanup>>
    /\ UNCHANGED <<callVars, trafficVars>>

\* What a COMMIT makes of the table: the transaction's deletes and inserts.
Committed(table, delset, buf) == (table \ delset) \cup buf

\* part_000:840-849: COMMIT resolved; on success finally releases the client.
CommitReturnPart000(c, ok) ==
    /\ running
    /\ variant = "part_000"
    /\ cycle[c].pc = "commit"
    /\ IF ok
       THEN /\ noise_sources' =
                   Committed(noise_sources, cycle[c].delset, cycle[c].buf)
            /\ cycle' = [cycle EXCEPT ![c].pc = "done", ![c].conn = FALSE,
                            ![c].txn = FALSE,
                            ![c].wrote = ~(cycle[c].buf \subseteq noise_sources),
                            ![c].erased = @ \/ cycle[c].delset \cap noise_sources # {}]
            /\ lastCleanup' = [lastCleanup EXCEPT !.settled = FALSE]
       ELSE /\ cycle' = [cycle EXCEPT ![c].pc = "rollback", ![c].failed = TRUE]
            /\ UNCHANGED <<noise_sources, lastCleanup>>
    /\ UNCHANGED <<variant, running, now, started, lastKnownFlightData,
                   wssClients, readyState, inbox, sendRaises, cleanups,
                   cleanupsStarted, demos, published, lastKnownPub, joinedAt>>
    /\ UNCHANGED <<callVars, trafficVars>>

\* part_000:844-849: ROLLBACK resolved inside catch; finally releases the
\* client either way, and a failed ROLLBACK rejects the function's promise.
RollbackReturnPart000(c, ok) ==
    /\ running
    /\ variant = "part_000"
    /\ cycle[c].pc = "rollback"
    /\ IF ok
       THEN /\ cycle' = [cycle EXCEPT ![c].pc = "done", ![c].conn = FALSE,
                            ![c].txn = FALSE, ![c].buf = {}]
            /\ UNCHANGED running
       ELSE /\ cycle' = [cycle EXCEPT ![c].pc = "escaped_db", ![c].conn = FALSE,
                            ![c].txn = FALSE, ![c].buf = {}]
            /\ Unhandled
    /\ UNCHANGED <<variant, now, started, lastKnownFlightData, wssClients,
                   readyState, inbox, sendRaises, noise_sources, cleanups,
                   cleanupsStarted, demos, published, lastKnownPub, joinedAt,
                   lastCleanup>>
    /\ UNCHANGED <<callVars, trafficVars>>

(***************************************************************************)
(* updateAndBroadcastNoiseData, src/index.js:463-524.  Every database step  *)
(* is inside one try whose catch only logs: a failing step ends the         *)
(* execution with the client still checked out and its transaction, if      *)
(* any, still open.  Row locks are not modelled: a statement takes effect   *)
(* when it resolves.                                                        *)
(***************************************************************************)
\* index.js:464-490: from the resolved fetch to `await pool.connect()`.
FetchReturnIndex(c, response) ==
    /\ running
    /\ variant = "index.js"
    /\ cycle[c].pc = "fetch"
    /\ LET allNoiseData == fetchRealFlightData(response).value
           data == frontendPayload(allNoiseData)
           n == Len(published) + 1
           sent == broadcast(Entry(NoiseDataUpdate(data), n, "broadcast"))
       IN IF SkipsCycle(allNoiseData)
          THEN /\ cycle' = [cycle EXCEPT ![c].pc = "done"]
               /\ UNCHANGED <<running, inbox, published>>
          ELSE /\ published' = Append(published, Publish(data))
               /\ inbox' = sent.inbox
               /\ IF sent.raised
                  THEN /\ cycle' = [cycle EXCEPT ![c].pc = "escaped_send",
                                                 ![c].batch = allNoiseData,
                                                 ![c].pub = n]
                       /\ Unhandled
                  ELSE /\ cycle' = [cycle EXCEPT ![c].pc = "connect",
                                                 ![c].batch = allNoiseData,
                                                 ![c].pub = n]
                       /\ UNCHANGED running
    /\ UNCHANGED <<variant, now, started, lastKnownFlightData, lastKnownPub,
                   wssClients, readyState, sendRaises, noise_sources, cleanups,
                   cleanupsStarted, demos, joinedAt, lastCleanup>>
    /\ UNCHANGED <<callVars, trafficVars>>

\* A step of index.js that threw: catch logs, nothing is released.
CaughtIndex(c) == [cycle EXCEPT ![c].pc = "done", ![c].failed = TRUE]

\* index.js:490-492: pool.connect() resolved; the first DELETE is sent.
ConnectReturnIndex(c, ok) ==
    /\ running
    /\ variant = "index.js"
    /\ cycle[c].pc = "connect"
    /\ cycle' = IF ok
                THEN [cycle EXCEPT ![c].pc = "delete", ![c].conn = TRUE]
                ELSE CaughtIndex(c)
    /\ UNCHANGED <<variant, running, now, started, lastKnownFlightData,
                   wssClients, readyState, inbox, sendRaises, noise_sources,
                   cleanups, cleanupsStarted, demos, published, lastKnownPub,
                   joinedAt, lastCleanup>>
    /\ UNCHANGED <<callVars, trafficVars>>

\* DELETE FROM noise_sources WHERE source_type = 'flight'
DeleteFlights(table) == table \ FlightRows(table)

\* index.js:492-506: the DELETE outside any transaction resolved; BEGIN is sent.
DeleteReturnIndex(c, ok) ==
    /\ running
    /\ variant = "index.js"
    /\ cycle[c].pc = "delete"
    /\ IF ok
       THEN /\ noise_sources' = DeleteFlights(noise_sources)
            /\ cycle' = [cycle EXCEPT ![c].pc = "begin",
                            ![c].erased = @ \/ noise_sources' # noise_sources]
       ELSE /\ cycle' = CaughtIndex(c)
            /\ UNCHANGED noise_sources
    /\ UNCHANGED <<variant, running, now, started, lastKnownFlightData,
                   wssClients, readyState, inbox, sendRaises, cleanups,
                   cleanupsStarted, demos, published, lastKnownPub, joinedAt,
                   lastCleanup>>
    /\ UNCHANGED <<callVars, trafficVars>>

\* index.js:506-507: BEGIN resolved; the DELETE inside the transaction is sent.
BeginReturnIndex(c, ok) ==
    /\ running
    /\ variant = "index.js"
    /\ cycle[c].pc = "begin"
    /\ cycle' = IF ok
                THEN [cycle EXCEPT ![c].pc = "txdelete", ![c].txn = TRUE]
                ELSE CaughtIndex(c)
    /\ UNCHANGED <<variant, running, now, started, lastKnownFlightData,
                   wssClients, readyState, inbox, sendRaises, noise_sources,
                   cleanups, cleanupsStarted, demos, published, lastKnownPub,
                   joinedAt, lastCleanup>>
    /\ UNCHANGED <<callVars, trafficVars>>

\* index.js:507-509: the transaction's DELETE resolved; the first INSERT is sent.
TxDeleteReturnIndex(c, ok) ==
    /\ running
    /\ variant = "index.js"
    /\ cycle[c].pc = "txdelete"
    /\ cycle' = IF ok
                THEN [cycle EXCEPT ![c].pc = "insert", ![c].i = 1,
                                   ![c].delset = FlightRows(noise_sources)]
                ELSE CaughtIndex(c)
    /\ UNCHANGED <<variant, running, now, started, lastKnownFlightData,
                   wssClients, readyState, inbox, sendRaises, noise_sources,
                   cleanups, cleanupsStarted, demos, published, lastKnownPub,
                   joinedAt, lastCleanup>>
    /\ UNCHANGED <<callVars, trafficVars>>

\* index.js:508-515: one INSERT of the for loop resolved; the next INSERT, or
\* after the last one COMMIT, is sent.
InsertReturnIndex(c, ok) ==
    /\ running
    /\ variant = "index.js"
    /\ cycle[c].pc = "insert"
    /\ cycle' = IF ok
                THEN [cycle EXCEPT
                        ![c].buf = @ \cup {RowIndex(cycle[c].batch[cycle[c].i], c)},
                        ![c].i = @ + 1,
                        ![c].pc = IF cycle[c].i < Len(cycle[c].batch)
                                  THEN "insert" ELSE "commit"]
                ELSE CaughtIndex(c)
    /\ UNCHANGED <<variant, running, now, started, lastKnownFlightData,
                   wssClients, readyState, inbox, sendRaises, noise_sources,
                   cleanups, cleanupsStarted, demos, published, lastKnownPub,
                   joinedAt, lastCleanup>>
    /\ UNCHANGED <<callVars, trafficVars>>

\* index.js:515-519: COMMIT resolved; on success the client is released.
CommitReturnIndex(c, ok) ==
    /\ running
    /\ variant = "index.js"
    /\ cycle[c].pc = "commit"
    /\ IF ok
       THEN /\ noise_sources' =
                   Committed(noise_sources, cycle[c].delset, cycle[c].buf)
            /\ cycle' = [cycle EXCEPT ![c].pc = "done", ![c].conn = FALSE,
                            ![c].txn = FALSE,
                            ![c].wrote = ~(cycle[c].buf \subseteq noise_sources),
                            ![c].erased = @ \/ cycle[c].delset \cap noise_sources # {}]
            /\ lastCleanup' = [lastCleanup EXCEPT !.settled = FALSE]
       ELSE /\ cycle' = CaughtIndex(c)
            /\ UNCHANGED <<noise_sources, lastCleanup>>
    /\ UNCHANGED <<variant, running, now, started, lastKnownFlightData,
                   wssClients, readyState, inbox, sendRaises, cleanups,
                   cleanupsStarted, demos, published, lastKnownPub, joinedAt>>
    /\ UNCHANGED <<callVars, trafficVars>>

(***************************************************************************)
(* cleanupOldData, src/unnamed/part_000:852-866: one DELETE through         *)
(* pool.query; a failure is caught and logged.                             *)
(***************************************************************************)
CleanupReturn(ok) ==
    /\ running
    /\ variant = "part_000"
    /\ cleanups > 0
    /\ cleanups' = cleanups - 1
    /\ IF ok
       THEN /\ noise_sources' = CleanupDelete(noise_sources, now)
            /\ lastCleanup' =
                   [rowCount |-> Cardinality(noise_sources \ noise_sources'),
                    settled |-> TRUE,
                    repeat |-> lastCleanup.settled]
       ELSE UNCHANGED <<noise_sources, lastCleanup>>
    /\ UNCHANGED <<variant, running, now, cycle, started, lastKnownFlightData,
                   wssClients, readyState, inbox, sendRaises, cleanupsStarted,
                   demos, published, lastKnownPub, joinedAt>>
    /\ UNCHANGED <<callVars, trafficVars>>

(***************************************************************************)
(* Subscribers.                                                            *)
(***************************************************************************)
\* part_000:884-889: the synchronization message of a new connection.
SyncPart000 ==
    IF Len(lastKnownFlightData) > 0
    THEN <<Entry(NoiseDataUpdate(lastKnownFlightData), lastKnownPub, "sync")>>
    ELSE <<>>

\* index.js:538-553: the connection handler sends the welcome message only.
SyncIndex == <<>>

\* wss.on('connection'): the socket joins wss.clients OPEN and the handler runs.
Connection(ws) ==
    /\ running
    /\ readyState[ws] = "NEW"
    /\ \A w \in ClientIds : w < ws => readyState[w] # "NEW"
    /\ wssClients' = Append(wssClients, ws)
    /\ readyState' = [readyState EXCEPT ![ws] = "OPEN"]
    /\ joinedAt' = [joinedAt EXCEPT ![ws] = Len(published)]
    /\ inbox' = [inbox EXCEPT ![ws] =
                    <<Entry(Welcome, 0, "welcome")>>
                    \o (IF variant = "part_000" THEN SyncPart000 ELSE SyncIndex)]
    /\ UNCHANGED <<variant, running, now, cycle, started, lastKnownFlightData,
                   sendRaises, noise_sources, cleanups, cleanupsStarted, demos,
                   published, lastKnownPub, lastCleanup>>
    /\ UNCHANGED <<callVars, trafficVars>>

\* The closing handshake starts: the socket stays in wss.clients, not OPEN.
Closing(ws) ==
    /\ running
    /\ readyState[ws] = "OPEN"
    /\ readyState' = [readyState EXCEPT ![ws] = "CLOSING"]
    /\ UNCHANGED <<variant, running, now, cycle, started, lastKnownFlightData,
                   wssClients, inbox, sendRaises, noise_sources, cleanups,
                   cleanupsStarted, demos, published, lastKnownPub, joinedAt,
                   lastCleanup>>
    /\ UNCHANGED <<callVars, trafficVars>>

\* The socket closed: ws removes it from wss.clients.
Closed(ws) ==
    /\ running
    /\ readyState[ws] = "CLOSING"
    /\ readyState' = [readyState EXCEPT ![ws] = "CLOSED"]
    /\ wssClients' = SelectSeq(wssClients, LAMBDA w : w # ws)
    /\ UNCHANGED <<variant, running, now, cycle, started, lastKnownFlightData,
                   inbox, sendRaises, noise_sources, cleanups, cleanupsStarted,
                   demos, published, lastKnownPub, joinedAt, lastCleanup>>
    /\ UNCHANGED <<callVars, trafficVars>>

\* An OPEN socket gets into a condition in which its send() throws.
SendBreaks(ws) ==
    /\ running
    /\ readyState[ws] = "OPEN"
    /\ ~sendRaises[ws]
    /\ sendRaises' = [sendRaises EXCEPT ![ws] = TRUE]
    /\ UNCHANGED <<variant, running, now, cycle, started, lastKnownFlightData,
                   wssClients, readyState, inbox, noise_sources, cleanups,
                   cleanupsStarted, demos, published, lastKnownPub, joinedAt,
                   lastCleanup>>
    /\ UNCHANGED <<callVars, trafficVars>>

(***************************************************************************)
(* index.js:529-536: every 2 s a generated batch is broadcast.  The batch   *)
(* is random; one generated point stands for it.                           *)
(***************************************************************************)
generateNoiseDataPoints ==
    << [id |-> "d0", lat |-> 25, lng |-> 55, noiseLevel |-> 19500,
        source |-> "traffic", emirate |-> "Dubai", timestamp |-> now] >>

DemoBroadcast ==
    /\ running
    /\ variant = "index.js"
    /\ demos < MaxDemos
    /\ demos' = demos + 1
    /\ LET sent == broadcast(Entry(NoiseDataUpdate(generateNoiseDataPoints), 0, "demo"))
       IN /\ inbox' = sent.inbox
          /\ running' = ~sent.raised
    /\ UNCHANGED <<variant, now, cycle, started, lastKnownFlightData, wssClients,
                   readyState, sendRaises, noise_sources, cleanups,
                   cleanupsStarted, published, lastKnownPub, joinedAt,
                   lastCleanup>>
    /\ UNCHANGED <<callVars, trafficVars>>

(***************************************************************************)
(* The traffic routes, src/unnamed/part_000:185-246, and                    *)
(* fetchGoogleTrafficData, part_000:65-141.  The two awaits of one loop     *)
(* iteration (the response, then its body) touch nothing but locals and     *)
(* are one step.  When the loop ends the function returns and the awaiting  *)
(* handler goes on in the same turn of the event loop, so the last reply,   *)
(* the cache update and the response are one step too.                      *)
(***************************************************************************)
\* The handler calls fetchGoogleTrafficData: it throws at once for want of
\* the key, which the handler's catch turns into a 500, or it sends the
\* request for the first route.
CallRefresh(r, route, t) ==
    IF KeyMissing(GOOGLE_API_KEY)
    THEN request' = [request EXCEPT ![r] =
             [@ EXCEPT !.route = route, !.pc = "done", !.now = t,
                       !.called = TRUE, !.response = Failure]]
    ELSE request' = [request EXCEPT ![r] =
             [@ EXCEPT !.route = route, !.pc = "route", !.now = t, !.i = 1,
                       !.called = TRUE, !.contacted = 1]]

\* GET /api/traffic/roads, part_000:185-202.
RoadsRequest(r) ==
    /\ running
    /\ variant = "part_000"
    /\ request[r].pc = "idle"
    /\ \A q \in RequestIds : q < r => request[q].pc # "idle"
    /\ IF CacheValid(trafficDataCache, trafficCacheTimestamp, dateNow)
       THEN request' = [request EXCEPT ![r] =
                [@ EXCEPT !.route = "roads", !.pc = "done", !.now = dateNow,
                          !.response =
                              Response(200, TRUE,
                                       (dateNow - trafficCacheTimestamp) \div 1000,
                                       trafficDataCache[1], 0)]]
       ELSE CallRefresh(r, "roads", dateNow)
    /\ UNCHANGED <<GOOGLE_API_KEY, dateNow, trafficDataCache,
                   trafficCacheTimestamp>>
    /\ UNCHANGED <<serverVars, callVars>>

\* POST /api/traffic/refresh, part_000:225-229.
RefreshRequest(r) ==
    /\ running
    /\ variant = "part_000"
    /\ request[r].pc = "idle"
    /\ \A q \in RequestIds : q < r => request[q].pc # "idle"
    /\ CallRefresh(r, "refresh", dateNow)
    /\ UNCHANGED <<GOOGLE_API_KEY, dateNow, trafficDataCache,
                   trafficCacheTimestamp>>
    /\ UNCHANGED <<serverVars, callVars>>

\* part_000:85-136, and at the end of the loop 140, 205-213 or 230-237.
RouteReturn(r, reply) ==
    /\ running
    /\ variant = "part_000"
    /\ request[r].pc = "route"
    /\ LET route == Routes[request[r].i]
           got == reply.kind = "ok"
           allTrafficPoints ==
               IF got
               THEN Append(request[r].allTrafficPoints, TrafficPoint(route, reply))
               ELSE request[r].allTrafficPoints
           succeeded == request[r].succeeded + (IF got THEN 1 ELSE 0)
       IN IF request[r].i < Len(Routes)
          THEN /\ request' = [request EXCEPT ![r] =
                      [@ EXCEPT !.i = @ + 1, !.contacted = @ + 1,
                                !.allTrafficPoints = allTrafficPoints,
                                !.succeeded = succeeded]]
               /\ UNCHANGED <<trafficDataCache, trafficCacheTimestamp>>
          ELSE /\ trafficDataCache' = <<allTrafficPoints>>
               /\ trafficCacheTimestamp' =
                      IF request[r].route = "roads" THEN request[r].now
                      ELSE dateNow
               /\ request' = [request EXCEPT ![r] =
                      [@ EXCEPT !.pc = "done",
                                !.allTrafficPoints = allTrafficPoints,
                                !.succeeded = succeeded,
                                !.response =
                                    IF request[r].route = "roads"
                                    THEN Response(200, FALSE, 0, allTrafficPoints, 0)
                                    ELSE Response(200, FALSE, 0, <<>>,
                                                  Len(allTrafficPoints))]]
    /\ UNCHANGED <<GOOGLE_API_KEY, dateNow>>
    /\ UNCHANGED <<serverVars, callVars>>

\* Time passes, half a cache duration at a time.
ClockStep == TRAFFIC_CACHE_DURATION \div 2

TrafficClock ==
    /\ running
    /\ dateNow < TRAFFIC_CACHE_DURATION + MaxClockSteps * ClockStep
    /\ dateNow' = dateNow + ClockStep
    /\ UNCHANGED <<GOOGLE_API_KEY, trafficDataCache, trafficCacheTimestamp,
                   request>>
    /\ UNCHANGED <<serverVars, callVars>>

(***************************************************************************)
(* Next-state relations.  Flight, Retention and Subscribers are the three   *)
(* groups of callbacks; Joins is the connection handler alone.                *)
(***************************************************************************)
Flight ==
    \/ TickFlight
    \/ \E c \in CycleIds, response \in Responses :
           \/ FetchReturnPart000(c, response)
           \/ FetchReturnIndex(c, response)
    \/ \E c \in CycleIds, ok \in BOOLEAN :
           \/ ConnectReturnPart000(c, ok)
           \/ BeginReturnPart000(c, ok)
           \/ InsertReturnPart000(c, ok)
           \/ CommitReturnPart000(c, ok)
           \/ RollbackReturnPart000(c, ok)
           \/ ConnectReturnIndex(c, ok)
           \/ DeleteReturnIndex(c, ok)
           \/ BeginReturnIndex(c, ok)
           \/ TxDeleteReturnIndex(c, ok)
           \/ InsertReturnIndex(c, ok)
           \/ CommitReturnIndex(c, ok)

Retention ==
    \/ TickCleanup
    \/ Advance
    \/ \E ok \in BOOLEAN : CleanupReturn(ok)

Subscribers ==
    \/ \E ws \in ClientIds :
           \/ Connection(ws)
           \/ Closing(ws)
           \/ Closed(ws)
           \/ SendBreaks(ws)
    \/ DemoBroadcast

Joins == \E ws \in ClientIds : Connection(ws)

\* The whole server.
NextServer == Flight \/ Retention \/ Subscribers
SpecServer == Init /\ [][NextServer]_vars

\* The server with subscribers that connect and stay connected.
Next == Flight \/ Retention \/ Joins
Spec == Init /\ [][Next]_vars

\* The server with no subscriber connecting: ingest, persistence, retention.
NextStore == Flight \/ Retention
SpecStore == Init /\ [][NextStore]_vars

\* The continuations of the database calls of updateAndBroadcastNoiseData.
Persistence ==
    \E c \in CycleIds, ok \in BOOLEAN :
        \/ ConnectReturnPart000(c, ok)
        \/ BeginReturnPart000(c, ok)
        \/ InsertReturnPart000(c, ok)
        \/ CommitReturnPart000(c, ok)
        \/ RollbackReturnPart000(c, ok)
        \/ ConnectReturnIndex(c, ok)
        \/ DeleteReturnIndex(c, ok)
        \/ BeginReturnIndex(c, ok)
        \/ TxDeleteReturnIndex(c, ok)
        \/ InsertReturnIndex(c, ok)
        \/ CommitReturnIndex(c, ok)

\* SpecStore under the scheduling the runtime gives: a timer that is due
\* fires, and the continuation of a database call runs once the database has
\* answered, which it does.  `await fetch(url)` (part_000:396, index.js:76)
\* is given no signal and no timer, so its continuation runs only if the
\* upstream answers: nothing is assumed of FetchReturnPart000/FetchReturnIndex.
SpecLive ==
    /\ Init
    /\ [][NextStore]_vars
    /\ WF_vars(TickFlight)
    /\ WF_vars(Persistence)
    /\ WF_vars(TickCleanup)
    /\ WF_vars(\E ok \in BOOLEAN : CleanupReturn(ok))

\* The server and its subscribers while pool.connect() and the startup
\* cleanup are still pending: ingest and broadcast.
NextHub ==
    \/ TickFlight
    \/ \E c \in CycleIds, response \in Responses :
           \/ FetchReturnPart000(c, response)
           \/ FetchReturnIndex(c, response)
    \/ Subscribers
SpecHub == Init /\ [][NextHub]_vars

\* The traffic routes of part_000, with the environment variable set or
\* not, beside the timers of the flight and retention cycles.
InitTraffic ==
    /\ InitServer
    /\ variant = "part_000"
    /\ NoCall
    /\ GOOGLE_API_KEY \in BOOLEAN
    /\ InitCache

Traffic ==
    \/ \E r \in RequestIds : RoadsRequest(r) \/ RefreshRequest(r)
    \/ \E r \in RequestIds, reply \in RouteReplies : RouteReturn(r, reply)
    \/ TrafficClock

NextTraffic ==
    \/ Traffic
    \/ TickFlight
    \/ TickCleanup

SpecTraffic == InitTraffic /\ [][NextTraffic]_vars

(***************************************************************************)
(* The two pure functions of the pipeline called on their own: Init draws   *)
(* the argument, and the one action of each function applies it.  Both      *)
(* server files hold the same text of the two functions.                   *)
(***************************************************************************)
\* (latitude, longitude) of a reported record.
ProbePositions == { <<25, 55>>, <<Null, 55>>, <<25, Null>> }

\* The record at position i of a snapshot; its icao24 is its position.
ProbeState(i, geo, baro, ground, vel, pos) ==
    State(ToString(i), RetentionDays, pos[2], pos[1], baro, ground, vel, geo)

\* The records position i may hold: a positioned airborne record, full
\* (geo_altitude, element 13, a number or null) or cut before element 13
\* (geo_altitude undefined); a grounded record; a record lacking latitude
\* or longitude; a record of seven elements, cut before baro_altitude (both
\* altitudes, the ground flag and the velocity undefined, and !undefined is
\* true); JSON null.
ProbeStates(i) ==
    { ProbeState(i, geo, baro, FALSE, 200, <<25, 55>>) :
          geo \in {Undefined, Null, 0, 500},
          baro \in {Null, 1500} }
    \cup { ProbeState(i, 500, 1500, TRUE, 200, <<25, 55>>) }
    \cup { ProbeState(i, 500, 1500, FALSE, 200, pos) :
               pos \in ProbePositions \ { <<25, 55>> } }
    \cup { ProbeState(i, Undefined, Undefined, FALSE, Undefined, <<25, 55>>) }
    \cup { NullRecord }

RECURSIVE ProbeSnapshots(_)
ProbeSnapshots(n) ==
    IF n = 0 THEN { <<>> }
    ELSE { Append(s, x) : s \in ProbeSnapshots(n - 1), x \in ProbeStates(n) }

ProbeResponses ==
    { [kind |-> k, hasStates |-> FALSE, states |-> <<>>] :
          k \in {"error", "status", "badjson", "nonarray", "ok"} }
    \cup { [kind |-> "ok", hasStates |-> TRUE, states |-> s] :
               s \in UNION { ProbeSnapshots(n) : n \in 0..MaxStates } }

Altitudes ==
    { Undefined, Null, -100, 0, 500, 999, 1000, 1001, 5500, 9999, 10000,
      10001, 20000 }

(***************************************************************************)
(* GET /api/heatmap/history, src/unnamed/part_000:248-335.  The query       *)
(* reads source_type, created_at and geom of noise_sources, so the table    *)
(* is given as a bag over these columns: the points it may hold and the     *)
(* number of rows of each.  Degrees are in thousandths, created_at and      *)
(* NOW() in days (INTERVAL '24 hours' is 1), the density in fiftieths.      *)
(***************************************************************************)
gridSizeDegrees == 5

UAE_BOUNDS == [minLat |-> 22600, minLng |-> 51550, maxLat |-> 26300, maxLng |-> 56380]

HistoryPoint(type, created, lat, lng) ==
    [source_type |-> type, created_at |-> created, lat |-> lat, lng |-> lng]

\* Two points of one grid cell, a point of the cell north of it, a point
\* exactly 24 hours old, a point north of the bounds, a point that is no
\* flight, and a point on the north-east corner of the bounds.
ProbePoints ==
    << HistoryPoint("flight", RetentionDays, 25001, 55001),
       HistoryPoint("flight", RetentionDays, 25002, 55002),
       HistoryPoint("flight", RetentionDays, 25004, 55001),
       HistoryPoint("flight", RetentionDays - 1, 25001, 55001),
       HistoryPoint("flight", RetentionDays, 26301, 55001),
       HistoryPoint("traffic", RetentionDays, 25001, 55001),
       HistoryPoint("flight", RetentionDays, 26300, 56380) >>

\* The numbers of rows a table may hold of each of these points.
ProbeCopies ==
    << {0, 1, 2, 49}, {0, 1, 2}, {0, 1, 3}, {0, 2}, {0, 2}, {0, 2}, {0, 1, 2} >>

ProbeTables ==
    { table \in [1..Len(ProbePoints) -> {0, 1, 2, 3, 49}] :
          \A k \in 1..Len(ProbePoints) : table[k] \in ProbeCopies[k] }

\* WHERE source_type = 'flight' AND created_at > NOW() - INTERVAL '24 hours'
\*   AND ST_X(geom) BETWEEN minLng AND maxLng
\*   AND ST_Y(geom) BETWEEN minLat AND maxLat
Filtered(point, t) ==
    /\ point.source_type = "flight"
    /\ point.created_at > t - 1
    /\ UAE_BOUNDS.minLng <= point.lng /\ point.lng <= UAE_BOUNDS.maxLng
    /\ UAE_BOUNDS.minLat <= point.lat /\ point.lat <= UAE_BOUNDS.maxLat

filtered_points(table, t) ==
    { k \in 1..Len(ProbePoints) : table[k] > 0 /\ Filtered(ProbePoints[k], t) }

\* ST_SnapToGrid of one coordinate: the nearest multiple of the grid size.
SnapToGrid(v) == ((2 * v + gridSizeDegrees) \div (2 * gridSizeDegrees)) * gridSizeDegrees

ST_SnapToGrid(point) == [lat |-> SnapToGrid(point.lat), lng |-> SnapToGrid(point.lng)]

RECURSIVE SumCopies(_, _)
SumCopies(table, ks) ==
    IF ks = {} THEN 0
    ELSE LET k == CHOOSE k \in ks : TRUE
         IN table[k] + SumCopies(table, ks \ {k})

\* SELECT ST_SnapToGrid(geom, $5) AS grid_geom, COUNT(*) AS flight_count
\*   FROM filtered_points GROUP BY grid_geom
grid_cells(table, t) ==
    LET kept == filtered_points(table, t)
    IN { [grid_geom |-> g,
          flight_count |->
              SumCopies(table, { k \in kept : ST_SnapToGrid(ProbePoints[k]) = g })] :
           g \in { ST_SnapToGrid(ProbePoints[k]) : k \in kept } }

\* Mutant of EnoughFlights: a single row is enough.
EnoughFlightsOne(flight_count) == flight_count >= 1

\* WHERE flight_count >= 2
EnoughFlights(flight_count) == flight_count >= 2

\* LEAST(flight_count::float / 50.0, 1.0), in fiftieths
normalized_density(flight_count) == Min(flight_count, 50)

\* (40 + (normalized_density * 50))::int: the cast rounds to the nearest
\* integer; the sum is held in fiftieths of fiftieths before it.
noise_level(density) == (2 * (40 * 50 + density * 50) + 50) \div (2 * 50)

density_normalized(table, t) ==
    { [grid_geom |-> c.grid_geom, flight_count |-> c.flight_count,
       normalized_density |-> normalized_density(c.flight_count)] :
          c \in { c \in grid_cells(table, t) : EnoughFlights(c.flight_count) } }

\* ORDER BY flight_count DESC: every order of the rows that is descending
\* in flight_count; rows of equal count come in any order.
OrderByCountDesc(rows) ==
    { q \in [1..Cardinality(rows) -> rows] :
          /\ \A i, j \in 1..Cardinality(rows) : i # j => q[i] # q[j]
          /\ \A i, j \in 1..Cardinality(rows) :
                 i < j => q[i].flight_count >= q[j].flight_count }

\* rows.map((point, index) => ({ id: `density-cell-${index}`, ... }))
heatmapData(rows) ==
    [index \in 1..Len(rows) |->
        [id |-> index - 1,
         lat |-> rows[index].grid_geom.lat,
         lng |-> rows[index].grid_geom.lng,
         flightCount |-> rows[index].flight_count,
         density |-> rows[index].normalized_density,
         noiseLevel |-> noise_level(rows[index].normalized_density),
         source |-> "flight",
         emirate |-> "UAE"]]

\* Legs a route may be answered with: 600 s without traffic, and in
\* traffic not reported, less, the same, or 1.15 to 5 times as much.
ProbeReplies ==
    { [kind |-> "ok", duration |-> 600, duration_in_traffic |-> t] :
          t \in {Null, 300, 600, 690, 750, 900, 1200, 3000} }

ProbeLegs ==
    { [route |-> UAE_MAJOR_ROUTES[k], reply |-> reply] :
          k \in 1..Len(UAE_MAJOR_ROUTES), reply \in ProbeReplies }

InitCalls ==
    /\ InitServer
    /\ variant = "part_000"
    /\ NoTraffic
    /\ \/ callee = "fetchRealFlightData" /\ argument \in ProbeResponses
       \/ callee = "calculateNoiseLevel" /\ argument \in Altitudes
       \/ callee = "TrafficPoint" /\ argument \in ProbeLegs
       \/ callee = "heatmapHistory" /\ argument \in ProbeTables
    /\ result = 0
    /\ returned = FALSE

FetchCallReturns ==
    /\ callee = "fetchRealFlightData"
    /\ ~returned
    /\ result' = fetchRealFlightData(argument)
    /\ returned' = TRUE
    /\ UNCHANGED <<callee, argument, serverVars, trafficVars>>

NoiseCallReturns ==
    /\ callee = "calculateNoiseLevel"
    /\ ~returned
    /\ result' = calculateNoiseLevel(argument)
    /\ returned' = TRUE
    /\ UNCHANGED <<callee, argument, serverVars, trafficVars>>

\* part_000:99-130: the point pushed for one route that answered.
PointCallReturns ==
    /\ callee = "TrafficPoint"
    /\ ~returned
    /\ result' = TrafficPoint(argument.route, argument.reply)
    /\ returned' = TRUE
    /\ UNCHANGED <<callee, argument, serverVars, trafficVars>>

\* part_000:248-335: the handler answers with the mapped rows of the
\* query, or with a 500 if pool.query rejects.
HistoryCallReturns(ok) ==
    /\ callee = "heatmapHistory"
    /\ ~returned
    /\ IF ok
       THEN \E rows \in OrderByCountDesc(density_normalized(argument, now)) :
                result' = [status |-> 200, body |-> heatmapData(rows)]
       ELSE result' = [status |-> 500, body |-> <<>>]
    /\ returned' = TRUE
    /\ UNCHANGED <<callee, argument, serverVars, trafficVars>>

NextCalls ==
    \/ FetchCallReturns
    \/ NoiseCallReturns
    \/ PointCallReturns
    \/ \E ok \in BOOLEAN : HistoryCallReturns(ok)
SpecCalls == InitCalls /\ [][NextCalls]_vars

(***************************************************************************)
(* Properties.                                                             *)
(***************************************************************************)
\* Number of entries of publish n that socket ws was sent through `via`.
Received(ws, n, via) ==
    Cardinality({ k \in 1..Len(inbox[ws]) :
                    inbox[ws][k].pub = n /\ inbox[ws][k].via = via })

Publishes == 1..Len(published)

\* The execution c has got its fetch result and the result is empty.
FetchedNothing(c) ==
    cycle[c].pc \notin {"idle", "fetch"} /\ Len(cycle[c].batch) = 0

\* C1: a step of a flight cycle whose fetch yielded an empty batch sends no
\* message to any subscriber, leaves the last-known payload unchanged and
\* inserts nothing into and deletes nothing from noise_sources.
C1_EmptyCycleTouchesNothing ==
    [][\A c \in CycleIds :
          (cycle'[c] # cycle[c] /\ FetchedNothing(c)')
              => UNCHANGED <<inbox, lastKnownFlightData, noise_sources>>]_vars

\* C1 witness: an execution has ended on an empty batch while a subscriber
\* was connected, a last-known payload existed and the table held rows.
C1_Witness ==
    \E c \in CycleIds, ws \in ClientIds :
        /\ cycle[c].pc = "done" /\ FetchedNothing(c)
        /\ cycle[c] # IdleCycle
        /\ IsOpen(ws)
        /\ Len(lastKnownFlightData) > 0
        /\ noise_sources # {}

\* C2: every subscriber that connected after a non-empty batch had been
\* published was sent the welcome message first and, second, a
\* NOISE_DATA_UPDATE carrying the batch published most recently before it
\* connected.
C2_SyncOnConnect ==
    \A ws \in ClientIds :
        (readyState[ws] # "NEW" /\ joinedAt[ws] > 0)
            => /\ Len(inbox[ws]) >= 2
               /\ inbox[ws][1].type = "WELCOME"
               /\ inbox[ws][2].type = "NOISE_DATA_UPDATE"
               /\ inbox[ws][2].data = published[joinedAt[ws]].data

\* C2 restricted to the server of src/unnamed/part_000.
C2_SyncOnConnectPart000 == variant = "part_000" => C2_SyncOnConnect

\* Subscribers of publish n that were OPEN and whose send did not throw.
Sound(n) == published[n].open \ published[n].broken

\* C3: every publish of the part_000 server replaces the last-known payload
\* and is delivered exactly once to every subscriber that was OPEN at that
\* moment; a subscriber that was not OPEN is sent nothing.
C3_PublishDelivers ==
    variant = "part_000" =>
        /\ Len(published) > 0
              => lastKnownFlightData = published[Len(published)].data
        /\ \A n \in Publishes, ws \in ClientIds :
              /\ ws \in Sound(n) => Received(ws, n, "broadcast") = 1
              /\ ws \notin published[n].open => Received(ws, n, "broadcast") = 0

\* C4: in a publish during which the send to one subscriber threw, every
\* other subscriber that was OPEN was still sent that publish.
C4_OthersStillReceive ==
    \A n \in Publishes :
        published[n].open \cap published[n].broken # {}
            => \A ws \in Sound(n) : Received(ws, n, "broadcast") >= 1

\* C5: no subscriber is sent a publish twice, be it as synchronization
\* message or by broadcast, and every subscriber connected when a batch is
\* published is sent it by the broadcast.
C5_OnceAndNotMissed ==
    \A n \in Publishes, ws \in ClientIds :
        /\ Received(ws, n, "broadcast") + Received(ws, n, "sync") <= 1
        /\ ws \in Sound(n) => Received(ws, n, "broadcast") >= 1

\* C5 without the second half: no publish reaches a subscriber twice.
C5_AtMostOnce ==
    \A n \in Publishes, ws \in ClientIds :
        Received(ws, n, "broadcast") + Received(ws, n, "sync") <= 1

\* C6: once a flight cycle in which a persistence step failed has ended, the
\* table holds none of its rows and the cycle has neither removed nor added
\* a committed row.
C6_FailedBatchLeavesLog ==
    \A c \in CycleIds :
        (cycle[c].pc \in Ended /\ cycle[c].failed)
            => /\ ~cycle[c].erased
               /\ ~cycle[c].wrote
               /\ \A r \in noise_sources : r.cycle # c

\* C6 restricted to the server of src/unnamed/part_000.
C6_FailedBatchLeavesLogPart000 == variant = "part_000" => C6_FailedBatchLeavesLog

\* C7: no database failure escapes a cycle function, and the process keeps
\* running its timers.
C7_NoFailureEscapes ==
    /\ \A c \in CycleIds : cycle[c].pc # "escaped_db"
    /\ running

\* C8: rows leave noise_sources only in a step of cleanupOldData.
C8_AppendOnly ==
    [][noise_sources \ noise_sources' # {} => cleanups' < cleanups]_vars

\* C8 restricted to the server of src/unnamed/part_000.
C8_AppendOnlyPart000 ==
    [][(variant = "part_000" /\ noise_sources \ noise_sources' # {})
          => cleanups' < cleanups]_vars

\* C9: a cleanup removes exactly the rows created more than RetentionDays
\* before now, and a cleanup that runs right after a successful one, with no
\* row committed and no time passed in between, removes no row.
C9_CleanupExactAndIdempotent ==
    /\ [](lastCleanup.repeat => lastCleanup.rowCount = 0)
    /\ [](lastCleanup.settled =>
              \A r \in noise_sources : now - r.created_at <= RetentionDays)
    /\ [][cleanups' < cleanups =>
              \/ noise_sources' = noise_sources
              \/ noise_sources' =
                     { r \in noise_sources : now - r.created_at <= RetentionDays }]_vars

\* C9 witness: a cleanup ran right after a successful one, and rows that
\* were in the table at startup have been removed.
C9_Witness ==
    /\ lastCleanup.repeat
    /\ ~(PriorRows \subseteq noise_sources)
    /\ PriorRows \cap noise_sources # {}

\* C10: at most one execution of the flight cycle and at most one execution
\* of the retention cycle is in progress.
C10_NoOverlap ==
    /\ Cardinality({ c \in CycleIds : InProgress(c) }) <= 1
    /\ cleanups <= 1

(***************************************************************************)
(* C11: the last-known payload always holds the batch of the latest-started *)
(* flight cycle among those that have published; a cycle that started       *)
(* earlier never overwrites what a cycle that started later wrote.  Cycles  *)
(* are numbered in the order their ticks fired.                            *)
(***************************************************************************)
HavePublished == { c \in CycleIds : cycle[c].pub > 0 }

LatestStarted(cs) == CHOOSE c \in cs : \A d \in cs : d <= c

C11_LatestStartedWins ==
    (variant = "part_000" /\ HavePublished # {})
        => lastKnownPub = cycle[LatestStarted(HavePublished)].pub

(***************************************************************************)
(* C12: every flight cycle eventually finishes even when the upstream feed  *)
(* never answers: the fetch is abandoned after a bounded wait and the cycle *)
(* ends as a fetch failure.  Stated for a process that stays alive: a       *)
(* cycle awaiting its fetch leads to that cycle having ended.              *)
(***************************************************************************)
C12_FetchIsAbandoned ==
    \A c \in CycleIds :
        (cycle[c].pc = "fetch") ~> (cycle[c].pc \in Ended \/ ~running)

(***************************************************************************)
(* C13: fetchRealFlightData never raises; on a transport error, a           *)
(* non-success status or a malformed payload, including one that fails      *)
(* part-way through decoding the records, it returns the empty sequence,    *)
(* not a partial batch.                                                     *)
(***************************************************************************)
FetchReturned == callee = "fetchRealFlightData" /\ returned

\* The response is no well-formed payload.
Malformed(response) ==
    \/ response.kind # "ok"
    \/ /\ response.hasStates
       /\ \E i \in 1..Len(response.states) : ~response.states[i].iterable

C13_NeverRaisesNorPartial ==
    FetchReturned =>
        /\ ~result.raised
        /\ Malformed(argument) => result.value = <<>>

\* A payload whose decoding failed after a point had been pushed.
C13_Witness ==
    /\ FetchReturned
    /\ argument.kind = "ok" /\ argument.hasStates
    /\ DecodeStates(argument.states).threw
    /\ DecodeStates(argument.states).noiseDataPoints # <<>>

(***************************************************************************)
(* C14: for every record of a fetched snapshot whose ground flag is true,   *)
(* or whose latitude or longitude is missing, the derived batch holds no    *)
(* point for that record.  A record is identified by its icao24.           *)
(***************************************************************************)
Missing(v) == v = Null \/ v = Undefined

Excluded(state) ==
    state.on_ground \/ Missing(state.latitude) \/ Missing(state.longitude)

PointsOf(state, batch) ==
    { k \in 1..Len(batch) : batch[k].id = state.icao24 }

C14_GroundedOrUnplacedDropped ==
    (FetchReturned /\ argument.kind = "ok") =>
        \A i \in 1..Len(argument.states) :
            Excluded(argument.states[i])
                => PointsOf(argument.states[i], result.value) = {}

\* A snapshot of a grounded record followed by an airborne one, decoded.
C14_Witness ==
    /\ FetchReturned
    /\ argument.kind = "ok"
    /\ Len(argument.states) = 2
    /\ argument.states[1].iterable /\ argument.states[1].on_ground
    /\ Len(result.value) = 1

(***************************************************************************)
(* C15: for every record the altitude used for the noise estimate and for   *)
(* the stored rounded altitude is the geometric altitude whenever one is    *)
(* present, for any present value including 0, and the barometric altitude  *)
(* only when the geometric altitude is absent.                              *)
(***************************************************************************)
GeometricFirst(state) ==
    IF Missing(state.geo_altitude) THEN state.baro_altitude
    ELSE state.geo_altitude

C15_GeometricWhenPresent ==
    (FetchReturned /\ argument.kind = "ok") =>
        \A i \in 1..Len(argument.states) :
            \A k \in PointsOf(argument.states[i], result.value) :
                /\ result.value[k].altitude_meters
                       = MathRound(GeometricFirst(argument.states[i]))
                /\ result.value[k].noiseLevel
                       = NoiseLevel300(GeometricFirst(argument.states[i]))

\* The same for a geometric altitude that is absent or not 0.
C15_GeometricWhenTruthy ==
    (FetchReturned /\ argument.kind = "ok") =>
        \A i \in 1..Len(argument.states) :
            \A k \in PointsOf(argument.states[i], result.value) :
                argument.states[i].geo_altitude # 0 =>
                    /\ result.value[k].altitude_meters
                           = MathRound(GeometricFirst(argument.states[i]))
                    /\ result.value[k].noiseLevel
                           = NoiseLevel300(GeometricFirst(argument.states[i]))

(***************************************************************************)
(* C16: calculateNoiseLevel is a total function that equals the reference   *)
(* for every input: 0.1 when the altitude is absent or above 10000, 1.0     *)
(* when it is below 1000, and 1.0 - (altitude - 1000) / 9000 otherwise.     *)
(* The reference is in the units of calculateNoiseLevel: 9000 is 1.0.       *)
(***************************************************************************)
Reference(altitude) ==
    IF Missing(altitude) THEN 900
    ELSE IF altitude > 10000 THEN 900
    ELSE IF altitude < 1000 THEN 9000
    ELSE 9000 - (altitude - 1000)

NoiseReturned == callee = "calculateNoiseLevel" /\ returned

C16_EqualsReference == NoiseReturned => result = Reference(argument)

\* The same for an altitude that is a number or null.
C16_EqualsReferenceDefined ==
    (NoiseReturned /\ argument # Undefined) => result = Reference(argument)

\* The values the claim lists: 500, 1000, 5500, 10000, 20000 and null.
C16_ListedValues ==
    NoiseReturned =>
        /\ argument = 500 => result = 9000
        /\ argument = 1000 => result = 9000
        /\ argument = 5500 => result = 4500
        /\ argument = 10000 => result < 9000
        /\ argument = 20000 => result = 900
        /\ argument = Null => result = 900

(***************************************************************************)
(* C17: every point produced by a flight cycle, for any altitude the feed   *)
(* can supply (present, null or missing), has a noiseLevel within [60, 90]. *)
(* noiseLevel is held times 300: 60 is 18000 and 90 is 27000.               *)
(***************************************************************************)
InRange(noiseLevel) ==
    noiseLevel # NaN /\ 18000 <= noiseLevel /\ noiseLevel <= 27000

C17_NoiseLevelInRange ==
    FetchReturned =>
        \A k \in 1..Len(result.value) : InRange(result.value[k].noiseLevel)

\* The same for snapshots no record of which is cut before baro_altitude.
C17_NoiseLevelInRangeDefined ==
    (FetchReturned /\ argument.kind = "ok"
         /\ \A i \in 1..Len(argument.states) :
                Altitude(argument.states[i]) # Undefined) =>
        \A k \in 1..Len(result.value) : InRange(result.value[k].noiseLevel)

(***************************************************************************)
(* C18: a traffic query made while a cached batch exists whose age is below *)
(* the 5-minute ttl returns that batch tagged cached with its age and does  *)
(* not call the upstream source; a query made with no cached batch, or with *)
(* one whose age is at or beyond the ttl, calls the refresh, replaces the   *)
(* cached batch and timestamp together, and returns the new batch tagged    *)
(* as not cached.                                                           *)
(***************************************************************************)
\* In this step the request r arrives at the given route.
Arrives(r, route) ==
    request[r].pc = "idle" /\ request'[r].pc # "idle" /\ request'[r].route = route

\* In this step the request r is answered.
Completes(r) == request[r].pc # "done" /\ request'[r].pc = "done"

AgeBelowTtl ==
    /\ trafficDataCache # <<>>
    /\ trafficCacheTimestamp # Null
    /\ dateNow - trafficCacheTimestamp < 5 * 60 * 1000

C18_Hit(r) ==
    (Arrives(r, "roads") /\ AgeBelowTtl) =>
        /\ request'[r].pc = "done"
        /\ request'[r].response =
               Response(200, TRUE, (dateNow - trafficCacheTimestamp) \div 1000,
                        trafficDataCache[1], 0)
        /\ ~request'[r].called /\ request'[r].contacted = 0
        /\ UNCHANGED <<trafficDataCache, trafficCacheTimestamp>>

C18_MissCalls(r) ==
    (Arrives(r, "roads") /\ ~AgeBelowTtl) => request'[r].called

\* The query r, which called the refresh, is answered with the new batch,
\* and the cache holds that batch and the time the query was made.
Replaces(r) ==
    /\ request'[r].response =
           Response(200, FALSE, 0, request'[r].allTrafficPoints, 0)
    /\ trafficDataCache' = <<request'[r].allTrafficPoints>>
    /\ trafficCacheTimestamp' = request'[r].now

C18_MissReplaces(r) ==
    (request'[r].route = "roads" /\ request'[r].called /\ Completes(r))
        => Replaces(r)

C18_CachedOrRefreshed ==
    [][\A r \in RequestIds :
          C18_Hit(r) /\ C18_MissCalls(r) /\ C18_MissReplaces(r)]_vars

\* C18 as amended: the same, except that a refresh which raises because the
\* traffic API key is absent contacts no upstream, answers the query with
\* an error and leaves the cached batch and timestamp as they were.
C18_MissReplacesOrFails(r) ==
    (request'[r].route = "roads" /\ request'[r].called /\ Completes(r)) =>
        IF GOOGLE_API_KEY THEN Replaces(r)
        ELSE /\ request'[r].response = Failure
             /\ request'[r].contacted = 0
             /\ UNCHANGED <<trafficDataCache, trafficCacheTimestamp>>

C18_CachedOrRefreshedUnlessKeyless ==
    [][\A r \in RequestIds :
          C18_Hit(r) /\ C18_MissCalls(r) /\ C18_MissReplacesOrFails(r)]_vars

\* A query refreshed the cache with a batch of points, and a later query
\* was answered from the cache, half a ttl old.
C18_Witness ==
    \E r, q \in RequestIds :
        /\ request[r].route = "roads" /\ request[r].pc = "done"
        /\ request[r].response.status = 200 /\ ~request[r].response.cached
        /\ request[r].response.data # <<>>
        /\ request[q].route = "roads" /\ request[q].pc = "done"
        /\ request[q].response.cached
        /\ request[q].response.cacheAge = 150
        /\ request[q].response.data = request[r].response.data

(***************************************************************************)
(* C19: when a traffic refresh obtains data from no route at all (every     *)
(* route fails), the caller of the traffic query or forced refresh          *)
(* receives an error, and the previously cached batch and its timestamp     *)
(* are left exactly as they were.                                           *)
(***************************************************************************)
\* In this step the refresh of request r ends with every route failed.
EveryRouteFailed(r) ==
    /\ request[r].pc = "route"
    /\ Completes(r)
    /\ request'[r].succeeded = 0

C19_TotalFailureIsAnError ==
    [][\A r \in RequestIds :
          EveryRouteFailed(r) =>
              /\ request'[r].response.status = 500
              /\ UNCHANGED <<trafficDataCache, trafficCacheTimestamp>>]_vars

(***************************************************************************)
(* C20: when the traffic API key is absent, every traffic refresh attempt   *)
(* fails with an error returned to its caller without contacting the        *)
(* upstream source, the cached batch and timestamp are unchanged, and the   *)
(* flight cycle and retention cycle keep running.                           *)
(***************************************************************************)
\* In this step the request r calls the refresh.
AttemptsRefresh(r) == ~request[r].called /\ request'[r].called

\* The step leaves the process alive and the executions and timers of the
\* flight and retention cycles as they were.
CyclesUntouched ==
    /\ running' /\ running
    /\ UNCHANGED <<cycle, started, cleanups, cleanupsStarted>>

C20_KeylessRefreshFailsAlone ==
    [][~GOOGLE_API_KEY =>
          \A r \in RequestIds :
              AttemptsRefresh(r) =>
                  /\ request'[r].pc = "done"
                  /\ request'[r].response = Failure
                  /\ request'[r].contacted = 0
                  /\ UNCHANGED <<trafficDataCache, trafficCacheTimestamp>>
                  /\ CyclesUntouched
                  /\ ENABLED TickFlight => (ENABLED TickFlight)'
                  /\ ENABLED TickCleanup => (ENABLED TickCleanup)']_vars

\* Without the key a query and a forced refresh have both been refused, and
\* the flight and retention timers have fired since.
C20_Witness ==
    /\ ~GOOGLE_API_KEY
    /\ \E r, q \in RequestIds :
           /\ request[r].route = "roads" /\ request[r].response = Failure
           /\ request[q].route = "refresh" /\ request[q].response = Failure
    /\ started = MaxTicks /\ cleanupsStarted = MaxCleanups
    /\ running

(***************************************************************************)
(* C21: every traffic sample produced by a refresh, for every configured    *)
(* route weight and every ratio of traffic duration to normal duration,     *)
(* has a congestion intensity within [0.3, 1.0].  The intensity of a point  *)
(* is in hundred-thousandths: 0.3 is 30000 and 1.0 is 100000.               *)
(***************************************************************************)
PointReturned == callee = "TrafficPoint" /\ returned

C21_IntensityInRange ==
    PointReturned => (30000 <= result.intensity /\ result.intensity <= 100000)

\* The same for the intensity before it is multiplied by the route weight,
\* in thousandths, and for the upper end of the range after it.
C21_UnweightedInRange ==
    PointReturned =>
        /\ 300 <= trafficIntensity(argument.reply)
        /\ trafficIntensity(argument.reply) <= 1000
        /\ result.intensity <= 100000

HistoryReturned == callee = "heatmapHistory" /\ returned /\ result.status = 200

\* The grid line a coordinate lies nearest to.
Nearest(v) ==
    CHOOSE c \in (v - gridSizeDegrees)..(v + gridSizeDegrees) :
        /\ c % gridSizeDegrees = 0
        /\ 2 * (v - c) < gridSizeDegrees
        /\ 2 * (c - v) < gridSizeDegrees

CellOf(point) == [lat |-> Nearest(point.lat), lng |-> Nearest(point.lng)]

\* A flight point of the last 24 hours inside the bounding box (a point on
\* the edge of the box is inside it, one exactly 24 hours old is not).
Counted(point) ==
    /\ point.source_type = "flight"
    /\ now - point.created_at < 1
    /\ point.lat \in UAE_BOUNDS.minLat..UAE_BOUNDS.maxLat
    /\ point.lng \in UAE_BOUNDS.minLng..UAE_BOUNDS.maxLng

FlightPointsIn(cell) ==
    SumCopies(argument, { k \in 1..Len(ProbePoints) :
                              Counted(ProbePoints[k]) /\ CellOf(ProbePoints[k]) = cell })

EntriesOf(cell) ==
    { i \in 1..Len(result.body) :
          result.body[i].lat = cell.lat /\ result.body[i].lng = cell.lng }

\* C22: the aggregation query returns exactly one cell for each grid cell
\* holding at least 2 flight points of the last 24 hours inside the bounding
\* box, and none for a cell holding fewer; each returned cell carries the
\* number of such points as its count, min(count / 50, 1) as its density
\* (held in fiftieths) and 40 + density * 50 as its noise level; the cells
\* come in order of descending count.
C22_CellsOfTwoOrMore ==
    HistoryReturned =>
        /\ \A k \in 1..Len(ProbePoints) :
               LET cell == CellOf(ProbePoints[k])
               IN IF FlightPointsIn(cell) >= 2
                  THEN Cardinality(EntriesOf(cell)) = 1
                  ELSE EntriesOf(cell) = {}
        /\ \A i \in 1..Len(result.body) :
               LET entry == result.body[i]
                   count == FlightPointsIn([lat |-> entry.lat, lng |-> entry.lng])
               IN /\ count >= 2
                  /\ entry.flightCount = count
                  /\ entry.density = (IF count <= 50 THEN count ELSE 50)
                  /\ 50 * entry.noiseLevel = 40 * 50 + entry.density * 50
        /\ \A i, j \in 1..Len(result.body) :
               i < j => result.body[i].flightCount >= result.body[j].flightCount

\* A table with a cell of more than 50 points, a cell of fewer, and a cell
\* of a single point: two cells are returned.
C22_Witness ==
    /\ HistoryReturned
    /\ Len(result.body) = 2
    /\ result.body[1].flightCount > 50
    /\ result.body[2].flightCount < 50
    /\ \E k \in 1..Len(ProbePoints) : FlightPointsIn(CellOf(ProbePoints[k])) = 1

\* The position of the data message k of ws among what ws was sent: after
\* the welcome, and a synchronization message only directly after it.
AfterWelcome(ws, k) ==
    /\ k > 1
    /\ inbox[ws][1].type = "WELCOME"
    /\ inbox[ws][k].via = "sync" => k = 2

\* C23: every NOISE_DATA_UPDATE a subscriber was sent comes after its
\* welcome and carries the full batch one flight cycle published, as the
\* synchronization message or by that cycle's broadcast; a subscriber OPEN
\* when a cycle published was sent that batch once by the broadcast, and no
\* publish reached a subscriber twice.
C23_OnlyCycleBatches ==
    /\ \A ws \in ClientIds : \A k \in 1..Len(inbox[ws]) :
           inbox[ws][k].type = "NOISE_DATA_UPDATE" =>
               /\ AfterWelcome(ws, k)
               /\ inbox[ws][k].via \in {"sync", "broadcast"}
               /\ inbox[ws][k].pub \in Publishes
               /\ inbox[ws][k].data = published[inbox[ws][k].pub].data
    /\ \A n \in Publishes, ws \in ClientIds :
           /\ Received(ws, n, "broadcast") <= 1
           /\ ws \in Sound(n) => Received(ws, n, "broadcast") = 1

\* C23 without the generated batches: every data message that did not come
\* from the 2 s timer carries a published batch, after the welcome.
C23_CycleBatchesUnlessGenerated ==
    \A ws \in ClientIds : \A k \in 1..Len(inbox[ws]) :
        (inbox[ws][k].type = "NOISE_DATA_UPDATE" /\ inbox[ws][k].via # "demo") =>
            /\ AfterWelcome(ws, k)
            /\ inbox[ws][k].pub \in Publishes
            /\ inbox[ws][k].data = published[inbox[ws][k].pub].data

\* The awaits of an execution between its broadcast and its end: the
\* database calls.
Persisting == {"connect", "begin", "insert", "commit", "rollback", "delete", "txdelete"}

\* The execution c publishes in this step.
PublishesNow(c) == cycle[c].pub = 0 /\ cycle'[c].pub > 0

\* The execution c takes a persistence step.
PersistsNow(c) == cycle[c].pc \in Persisting /\ cycle'[c] # cycle[c]

\* C24: the step in which a flight cycle publishes its non-empty batch sends
\* it to every OPEN subscriber while the cycle holds no connection and has
\* written nothing; every persistence step of the cycle comes after that
\* step, and such a step, failing or not, leaves what subscribers were sent,
\* the published batches and the last-known payload as they are.
C24_BroadcastBeforeWrite ==
    [][\A c \in CycleIds :
          /\ PublishesNow(c) =>
                /\ Len(cycle'[c].batch) > 0
                /\ ~cycle'[c].conn /\ ~cycle'[c].txn
                /\ ~cycle'[c].wrote /\ ~cycle'[c].erased
                /\ cycle'[c].buf = {} /\ cycle'[c].delset = {}
                /\ noise_sources' = noise_sources
                /\ \A r \in noise_sources : r.cycle # c
                /\ \A ws \in published'[cycle'[c].pub].open
                         \ published'[cycle'[c].pub].broken :
                       /\ Len(inbox'[ws]) = Len(inbox[ws]) + 1
                       /\ inbox'[ws][Len(inbox'[ws])].pub = cycle'[c].pub
                       /\ inbox'[ws][Len(inbox'[ws])].data
                              = published'[cycle'[c].pub].data
          /\ PersistsNow(c) =>
                /\ cycle[c].pub > 0
                /\ cycle'[c].pub = cycle[c].pub
                /\ inbox' = inbox
                /\ published' = published
                /\ lastKnownFlightData' = lastKnownFlightData
                /\ lastKnownPub' = lastKnownPub]_vars

\* A cycle of the part_000 server has ended after a persistence failure; a
\* subscriber holds its batch, and that batch is the last-known payload.
C24_Witness ==
    \E c \in CycleIds, ws \in ClientIds :
        /\ cycle[c].pc \in Ended
        /\ cycle[c].failed
        /\ cycle[c].pub > 0
        /\ Received(ws, cycle[c].pub, "broadcast") = 1
        /\ lastKnownPub = cycle[c].pub
        /\ lastKnownFlightData = published[cycle[c].pub].data

\* C25: an execution of the flight cycle that has ended holds no connection
\* of the pool and has no transaction open.
C25_ReleasedAndClosed ==
    \A c \in CycleIds :
        cycle[c].pc \in Ended => (~cycle[c].conn /\ ~cycle[c].txn)

\* C25 restricted to the server of src/unnamed/part_000.
C25_ReleasedAndClosedPart000 == variant = "part_000" => C25_ReleasedAndClosed

\* In this step the request r, whose refresh succeeded, stores its batch.
StoresBatch(r) ==
    /\ Completes(r)
    /\ request'[r].called
    /\ request'[r].response.status = 200

\* The request q stored its batch in an earlier step.
HasStored(q) ==
    /\ request[q].pc = "done"
    /\ request[q].called
    /\ request[q].response.status = 200

\* C26: a step that stores a batch in the cache does not move the cache
\* timestamp backward, and the request storing it did not call its refresh
\* before a request whose batch was stored earlier (request[r].now is the
\* time at which r arrived and called its refresh).
C26_CacheMovesForward ==
    [][\A r \in RequestIds :
          StoresBatch(r) =>
              /\ trafficCacheTimestamp # Null
                     => trafficCacheTimestamp' >= trafficCacheTimestamp
              /\ \A q \in RequestIds \ {r} :
                     HasStored(q) => request[q].now <= request'[r].now]_vars

\* The timestamp half of C26 for forced refreshes alone: a forced refresh
\* that stores its batch does not move the timestamp backward.
C26_RefreshMovesForward ==
    [][\A r \in RequestIds :
          (StoresBatch(r) /\ request'[r].route = "refresh"
                /\ trafficCacheTimestamp # Null)
              => trafficCacheTimestamp' >= trafficCacheTimestamp]_vars

\* The altitudes that are present: numbers.
PresentAltitudes == Altitudes \ {Null, Undefined}

PresentReturned == NoiseReturned /\ argument \in PresentAltitudes

\* C27: for all present altitudes a <= b the level of a is at least the
\* level of b, and no present altitude yields a level below 0.1 (900).
C27_NonIncreasing ==
    PresentReturned =>
        /\ \A b \in PresentAltitudes :
               argument <= b => result >= calculateNoiseLevel(b)
        /\ result >= 900

\* C27 as the code has it: the level does not increase with the altitude up
\* to 10000, where it reaches 0; it lies within [0, 1]; and above 10000 it
\* is 0.1, which is more than the level of an altitude just below.
C27_NonIncreasingUpTo10000 ==
    PresentReturned =>
        /\ \A b \in PresentAltitudes :
               (argument <= b /\ b <= 10000) => result >= calculateNoiseLevel(b)
        /\ 0 <= result /\ result <= 9000
        /\ argument > 10000 => result = 900

\* The altitude 5500, between two other altitudes of the interpolation, has
\* been given its level, one half.
C27_Witness ==
    /\ PresentReturned
    /\ argument = 5500
    /\ result = 4500
    /\ \E a, b \in PresentAltitudes :
           1000 < a /\ a < argument /\ argument < b /\ b <= 10000

====
